---- MODULE Spec2Model ----
(***************************************************************************)
(* Viterbi decoding of time-varying categorical distributions (torbi).     *)
(*                                                                         *)
(* The module models torbi/core.py: from_probabilities with its CPU and    *)
(* accelerator branches, backward, save_masked, from_file and the          *)
(* many-files pipeline from_files_to_files / from_dataloader, and the      *)
(* reference decoder of torbi/reference/core.py.                           *)
(*                                                                         *)
(* Numbers.  A float x is held as the integer 12 * x, so the probabilities *)
(* 0, 1/4, 1/3, 1/2, 1 are 0, 3, 4, 6, 12.  Logarithms are taken to base   *)
(* 2, which rescales every log-probability by one positive factor and so   *)
(* changes no comparison: log 1 = 0, log 1/2 = -12, log 1/3 = -19 (rounded *)
(* to the grid, as float32 rounds), log 1/4 = -24, log 0 = -inf.           *)
(* Tensors are records [shape, data]; data is a nested function indexed    *)
(* from 0 as in the source.                                                *)
(***************************************************************************)
EXTENDS Integers, Sequences, FiniteSets, TLC

\* Bounds of the model.
MaxBatch == 2
MaxFrames == 3
MaxStates == 3
MaxSeed == 11
MaxFiles == 3
MaxFileSeed == 3

VARIABLES
    call,            \* the caller's arguments (entry point, tensors or file contents, flags)
    pc,              \* position in the call
    observation,     \* locals of from_probabilities and from_dataloader, rebound
    batch_frames,    \*   as the code rebinds them
    transition,
    initial,
    posterior,
    memory,
    indices,         \* the value returned by backward / from_probabilities
    error,           \* the exception raised, "" when none
    input_filenames, \* the file names of the batch at hand
    output_files,    \* the dictionary from input to output file names
    position,        \* how many items of the dataset the dataloader has yielded
    disk,            \* the output files written
    progress,        \* the progress bar
    pool             \* the save pool

callVars == <<observation, batch_frames, transition, initial, posterior,
              memory, indices, error>>

filesVars == <<input_filenames, output_files, position, disk, progress, pool>>

vars == <<call, pc, observation, batch_frames, transition, initial,
          posterior, memory, indices, error, input_filenames, output_files,
          position, disk, progress, pool>>

-----------------------------------------------------------------------------
\* Floats

\* float32 -inf: below every finite sum the bounds allow.
NegInf == -(2^20)

\* float32 nan (torch.log of a negative number).
NaN == 2^20

\* torch.log on a float held as 12 * x.
Log(x) ==
    CASE x = 12 -> 0
      [] x = 6 -> -12
      [] x = 4 -> -19
      [] x = 3 -> -24
      [] x = 0 -> NegInf
      [] OTHER -> NaN

\* torch.exp on a log-probability of the grid.
Exp(x) ==
    CASE x = 0 -> 12
      [] x = -12 -> 6
      [] x = -19 -> 4
      [] x = -24 -> 3
      [] x = NegInf -> 0
      [] OTHER -> NaN

\* float addition: -inf absorbs every finite value.
Add(a, b) ==
    IF a = NaN \/ b = NaN THEN NaN
    ELSE IF a = NegInf \/ b = NegInf THEN NegInf
    ELSE a + b

\* 1. / states
Uniform(states) == 12 \div states

\* math.log(1. / states)
LogUniform(states) == Log(Uniform(states))

-----------------------------------------------------------------------------
\* Tensors

\* Python's None for an optional tensor argument.
None == [shape |-> <<>>, data |-> <<>>]

IsNone(x) == x.shape = <<>>

Tensor1(n, f(_)) ==
    [shape |-> <<n>>, data |-> [i \in 0..(n - 1) |-> f(i)]]

Tensor2(n, m, f(_, _)) ==
    [shape |-> <<n, m>>,
     data |-> [i \in 0..(n - 1) |-> [j \in 0..(m - 1) |-> f(i, j)]]]

Tensor3(n, m, k, f(_, _, _)) ==
    [shape |-> <<n, m, k>>,
     data |-> [i \in 0..(n - 1) |->
                 [j \in 0..(m - 1) |-> [l \in 0..(k - 1) |-> f(i, j, l)]]]]

\* An elementwise map, by the rank of the tensor.
MapTensor(x, f(_)) ==
    CASE Len(x.shape) = 1 ->
           Tensor1(x.shape[1], LAMBDA i : f(x.data[i]))
      [] Len(x.shape) = 2 ->
           Tensor2(x.shape[1], x.shape[2], LAMBDA i, j : f(x.data[i][j]))
      [] Len(x.shape) = 3 ->
           Tensor3(x.shape[1], x.shape[2], x.shape[3],
                   LAMBDA i, j, l : f(x.data[i][j][l]))

TorchLog(x) == MapTensor(x, Log)

TorchExp(x) == MapTensor(x, Exp)

\* torch.argmax / np.argmax over a vector v indexed 0..n-1: the index of the
\* first maximal value.
ArgMax(v, n) ==
    CHOOSE i \in 0..(n - 1) :
        /\ \A j \in 0..(n - 1) : v[j] <= v[i]
        /\ \A j \in 0..(i - 1) : v[j] < v[i]

-----------------------------------------------------------------------------
\* Forward kernels.  fastops.cppforward and cudaops.forward are compiled
\* extensions; their recurrence is taken from the specification (section 4.1).

\* argmax_i (delta[i] + log T[i, j]), smallest index on ties.
BestPrev(delta, trans, j, states) ==
    ArgMax([i \in 0..(states - 1) |-> Add(delta[i], trans[i][j])], states)

\* A vector as the buffer holds it: the function with its graph written out.
Stored(v) == v @@ <<>>

\* Initialization: delta_0[s] = log pi[s] + E'[0, s]; M[0, s] = 0.
FirstFrame(obs, init, states) ==
    [delta |-> Stored([s \in 0..(states - 1) |-> Add(init[s], obs[0][s])]),
     memo |-> Stored([s \in 0..(states - 1) |-> 0])]

\* Induction: p[i, j] = delta_{t-1}[i] + log T[i, j]; M[t, j] = argmax_i p[i, j];
\* delta_t[j] = p[M[t, j], j] + E'[t, j].
NextFrame(prev, obs, trans, t, states) ==
    LET memo == Stored([j \in 0..(states - 1) |->
                           BestPrev(prev, trans, j, states)])
    IN [delta |-> Stored([j \in 0..(states - 1) |->
                     Add(Add(prev[memo[j]], trans[memo[j]][j]), obs[t][j])]),
        memo |-> memo]

\* The frames 0..last of one sequence, in order: frame t needs delta_{t-1}.
\* Trellis(...)[t + 1] holds delta_t and M[t, .].
RECURSIVE Trellis(_, _, _, _, _)
Trellis(obs, trans, init, last, states) ==
    IF last = 0 THEN <<FirstFrame(obs, init, states)>>
    ELSE LET before == Trellis(obs, trans, init, last - 1, states)
         IN Append(before,
                   NextFrame(before[last].delta, obs, trans, last, states))

\* cudaops.forward(observation, batch_frames, transition, initial, posterior,
\* memory, frames, states): fills posterior (batch, states) with delta_{L-1}
\* and memory (batch, frames, states) for the frames t < L; the rest of memory
\* keeps the zeros it was allocated with, and so does row b of posterior
\* when there is no frame t < L (L = 0).
cuda_forward(obs, lengths, trans, init, frames, states) ==
    LET batch == obs.shape[1]
        run == Stored([b \in 0..(batch - 1) |->
                   IF lengths.data[b] = 0 THEN <<>>
                   ELSE Trellis(obs.data[b], trans.data, init.data,
                                lengths.data[b] - 1, states)])
    IN [posterior |->
          Tensor2(batch, states,
                  LAMBDA b, s : IF lengths.data[b] = 0 THEN 0
                                ELSE run[b][lengths.data[b]].delta[s]),
        memory |->
          Tensor3(batch, frames, states,
                  LAMBDA b, t, j :
                      IF t < lengths.data[b] THEN run[b][t + 1].memo[j]
                      ELSE 0)]

\* fastops.cppforward(observation, transition, initial, posterior, memory,
\* probability, frames, states): it is given no lengths, so it runs the
\* recurrence over all frames, and fills the posterior it is handed, which has
\* the shape of observation, with delta_t for every frame t.
cppforward(obs, trans, init, frames, states) ==
    LET batch == obs.shape[1]
        run == Stored([b \in 0..(batch - 1) |->
                   IF frames = 0 THEN <<>>
                   ELSE Trellis(obs.data[b], trans.data, init.data,
                                frames - 1, states)])
    IN [posterior |->
          Tensor3(batch, frames, states,
                  LAMBDA b, t, s : run[b][t + 1].delta[s]),
        memory |->
          Tensor3(batch, frames, states,
                  LAMBDA b, t, j : run[b][t + 1].memo[j])]

-----------------------------------------------------------------------------
\* backward (core.py)

\* The shape of torch.argmax(x, dim=1).unsqueeze(dim=1): dimension 1 is
\* reduced, then a dimension of size 1 is put in its place.
ArgMaxUnsqueezeShape(shape) ==
    <<shape[1], 1>> \o SubSeq(shape, 3, Len(shape))

\* Row b of an index tensor allocated as zeros, the terminal argmax not
\* written to it.
RepeatZeros(post, b, frames) == [u \in 0..(frames - 1) |-> 0]

\* Row b of torch.argmax(posterior).unsqueeze(dim=1).repeat(1, frames), with
\* dim=1 forgotten: the argmax of the flattened tensor.
RepeatArgMaxFlat(post, b, frames) ==
    LET states == post.shape[2]
        flat == [i \in 0..(post.shape[1] * states - 1) |->
                    post.data[i \div states][i % states]]
    IN [u \in 0..(frames - 1) |-> ArgMax(flat, post.shape[1] * states)]

\* Row b of torch.argmax(posterior, dim=1).unsqueeze(dim=1).repeat(1, frames):
\* the first maximal index of posterior[b], at every frame.
RepeatArgMax(post, b, frames) ==
    [u \in 0..(frames - 1) |-> ArgMax(post.data[b], post.shape[2])]

\* batch_frames[0] used for every row.
RowLengthFirst(lengths, b) == lengths.data[0]

\* batch_frames[b]
RowLength(lengths, b) == lengths.data[b]

\* memory[b, t, indices[b, t + 1]]: the frame is off by one.
BackwardStepSameFrame(row, mem, t, states) ==
    mem[t][row[t + 1] % states]

\* indices[b, t] = memory[b, t + 1, indices[b, t + 1]] (a negative index
\* counts from the end).
BackwardStep(row, mem, t, states) ==
    mem[t + 1][row[t + 1] % states]

\* What stands for a row whose back-trace raised: no row of indices has this
\* domain.
Lost == [u \in {-1} |-> 0]

\* for t in range(batch_frames[b] - 2, -1, -1): one row b, from t down to 0.
\* An index outside [-states, states) raises IndexError: the row is lost.
RECURSIVE BackwardLoop(_, _, _, _)
BackwardLoop(row, mem, t, states) ==
    IF t < 0 THEN row
    ELSE IF row[t + 1] \notin (-states)..(states - 1) THEN Lost
    ELSE BackwardLoop(
             [row EXCEPT ![t] = BackwardStep(row, mem, t, states)],
             mem, t - 1, states)

\* backward(posterior, memory, batch_frames): the indices, or the exception.
\* Tensor.repeat(1, frames) raises RuntimeError when the tensor has more
\* dimensions than sizes are given; batch_frames[b] raises TypeError on None.
backward(post, mem, lengths) ==
    LET batch == mem.shape[1]
        frames == mem.shape[2]
        states == mem.shape[3]
    IN IF Len(ArgMaxUnsqueezeShape(post.shape)) > 2
       THEN [raised |-> "RuntimeError", indices |-> None]
       ELSE IF IsNone(lengths)
       THEN [raised |-> "TypeError", indices |-> None]
       ELSE LET rows == Stored([b \in 0..(batch - 1) |->
                        Stored(BackwardLoop(
                            Stored(RepeatArgMax(post, b, frames)),
                            mem.data[b],
                            RowLength(lengths, b) - 2,
                            states))])
            IN IF \E b \in 0..(batch - 1) : rows[b] = Lost
               THEN [raised |-> "IndexError", indices |-> None]
               ELSE [raised |-> "",
                     indices |->
                         Tensor2(batch, frames, LAMBDA b, t : rows[b][t])]

-----------------------------------------------------------------------------
\* from_probabilities (core.py)

\* device = 'cpu' if gpu is None else f'cuda:{gpu}'
Device(gpu) == IF gpu = "None" THEN "cpu" ELSE "cuda"

Zeros(shape) ==
    CASE Len(shape) = 2 -> Tensor2(shape[1], shape[2], LAMBDA i, j : 0)
      [] Len(shape) = 3 ->
           Tensor3(shape[1], shape[2], shape[3], LAMBDA i, j, l : 0)

\* if not log_probs: x = torch.log(x)
ToLogSpace(x, log_probs) == IF log_probs THEN x ELSE TorchLog(x)

\* The CPU branch up to the forward call: defaults, log space, allocation.
\* batch_frames is not touched; posterior is allocated like observation.
PrepareCpu(obs, lengths, trans, init, log_probs) ==
    LET states == obs.shape[3]
    IN [observation |-> ToLogSpace(obs, log_probs),
        batch_frames |-> lengths,
        transition |->
            IF IsNone(trans)
            THEN Tensor2(states, states, LAMBDA i, j : LogUniform(states))
            ELSE ToLogSpace(trans, log_probs),
        initial |->
            IF IsNone(init)
            THEN Tensor1(states, LAMBDA i : LogUniform(states))
            ELSE ToLogSpace(init, log_probs),
        posterior |-> Zeros(obs.shape),
        memory |-> Zeros(obs.shape)]

\* The accelerator branch up to the forward call: batch_frames defaults to
\* frames for every item; posterior is allocated (batch, states).
PrepareCuda(obs, lengths, trans, init, log_probs) ==
    LET batch == obs.shape[1]
        frames == obs.shape[2]
        states == obs.shape[3]
    IN [observation |-> ToLogSpace(obs, log_probs),
        batch_frames |->
            IF IsNone(lengths) THEN Tensor1(batch, LAMBDA b : frames)
            ELSE lengths,
        transition |->
            IF IsNone(trans)
            THEN Tensor2(states, states, LAMBDA i, j : LogUniform(states))
            ELSE ToLogSpace(trans, log_probs),
        initial |->
            IF IsNone(init)
            THEN Tensor1(states, LAMBDA i : LogUniform(states))
            ELSE ToLogSpace(init, log_probs),
        posterior |-> Zeros(<<batch, states>>),
        memory |-> Zeros(<<batch, frames, states>>)]

Prepare(obs, lengths, trans, init, log_probs, gpu) ==
    IF Device(gpu) = "cpu"
    THEN PrepareCpu(obs, lengths, trans, init, log_probs)
    ELSE PrepareCuda(obs, lengths, trans, init, log_probs)

\* The kernels are handed the tensors' contiguous buffers with frames and
\* states, not their shapes: entry [i, j] of the transition is read at offset
\* i * states + j of the buffer transition fills row by row, entry [i] of
\* the initial distribution at offset i.  (A buffer with fewer entries than
\* are read is read past its end.)
Buffer2(x, states) ==
    LET flat == [k \in 0..(x.shape[1] * x.shape[2] - 1) |->
                    x.data[k \div x.shape[2]][k % x.shape[2]]]
    IN [shape |-> <<states, states>>,
        data |-> [i \in 0..(states - 1) |->
                     [j \in 0..(states - 1) |-> flat[i * states + j]]]]

Buffer1(x, states) ==
    [shape |-> <<states>>, data |-> [i \in 0..(states - 1) |-> x.data[i]]]

\* The forward call of either branch, on the locals Prepare left.
Forward(l, gpu) ==
    LET frames == l.observation.shape[2]
        states == l.observation.shape[3]
    IN IF Device(gpu) = "cpu"
       THEN cppforward(l.observation, Buffer2(l.transition, states),
                       Buffer1(l.initial, states), frames, states)
       ELSE cuda_forward(l.observation, l.batch_frames,
                         Buffer2(l.transition, states),
                         Buffer1(l.initial, states), frames, states)

\* from_probabilities as a function of its arguments: what backward returns
\* or raises.
from_probabilities(obs, lengths, trans, init, log_probs, gpu) ==
    LET l == Prepare(obs, lengths, trans, init, log_probs, gpu)
        f == Forward(l, gpu)
    IN backward(f.posterior, f.memory, l.batch_frames)

-----------------------------------------------------------------------------
\* from_file, from_files_to_files (core.py): loading the shared tensors

\* The loaded transition handed on as it is, never converted.
LoadTransitionAsGiven(file, log_probs) == file

\* if transition_file: transition = torch.load(transition_file);
\*     if log_probs: transition = torch.log(transition)
\* else: transition = None
LoadTransition(file, log_probs) ==
    IF IsNone(file) THEN None
    ELSE IF log_probs THEN TorchLog(file)
    ELSE file

\* initial = torch.load(initial_file) if initial_file else None
LoadInitial(file) == file

\* torch.load(input_file).unsqueeze(dim=0)
Unsqueeze(x) ==
    Tensor3(1, x.shape[1], x.shape[2], LAMBDA b, t, s : x.data[t][s])

\* The arguments from_file passes to from_probabilities; batch_frames is not
\* passed.
FromFileArgs(c) ==
    [observation |-> Unsqueeze(c.input),
     batch_frames |-> None,
     transition |-> LoadTransition(c.transition, c.log_probs),
     initial |-> LoadInitial(c.initial)]

-----------------------------------------------------------------------------
\* The reference decoder (reference/core.py)

\* librosa.sequence.viterbi(prob, transition, p_init) on probabilities: the
\* dense recurrence on the logarithms, value[0] = log p_init + log prob[0],
\* value[t][j] = max_i (value[t-1][i] + log transition[i][j]) + log prob[t][j],
\* ptr[t][j] the first maximising i, and the back-trace from the first
\* maximum of value[frames - 1].
RECURSIVE RefValue(_, _, _, _, _)
RefValue(prob, trans, p_init, t, states) ==
    IF t = 0
    THEN Stored([s \in 0..(states - 1) |-> Add(Log(p_init[s]), Log(prob[0][s]))])
    ELSE LET before == RefValue(prob, trans, p_init, t - 1, states)
         IN Stored([j \in 0..(states - 1) |->
                LET best == CHOOSE i \in 0..(states - 1) :
                        \A k \in 0..(states - 1) :
                            Add(before[k], Log(trans[k][j]))
                                <= Add(before[i], Log(trans[i][j]))
                IN Add(Add(before[best], Log(trans[best][j])), Log(prob[t][j]))])

RefPtr(prob, trans, p_init, t, j, states) ==
    LET before == RefValue(prob, trans, p_init, t - 1, states)
        score == Stored([i \in 0..(states - 1) |->
                            Add(before[i], Log(trans[i][j]))])
    IN ArgMax(score, states)

RECURSIVE RefState(_, _, _, _, _, _)
RefState(prob, trans, p_init, t, frames, states) ==
    IF t = frames - 1
    THEN ArgMax(RefValue(prob, trans, p_init, frames - 1, states), states)
    ELSE RefPtr(prob, trans, p_init, t + 1,
                RefState(prob, trans, p_init, t + 1, frames, states), states)

librosa_viterbi(prob, trans, p_init, frames, states) ==
    [t \in 0..(frames - 1) |->
        RefState(prob, trans, p_init, t, frames, states)]

\* if log_probs: x = torch.exp(x)
ToProbSpace(x, log_probs) == IF log_probs THEN TorchExp(x) ELSE x

\* reference.from_probabilities(observation, transition, initial, log_probs)
\* on one sequence (frames, states): the indices (frames,).
reference_from_probabilities(obs, trans, init, log_probs) ==
    LET frames == obs.shape[1]
        states == obs.shape[2]
        p_init == IF IsNone(init)
                  THEN Tensor1(states, LAMBDA i : Uniform(states))
                  ELSE ToProbSpace(init, log_probs)
        t_prob == IF IsNone(trans)
                  THEN Tensor2(states, states, LAMBDA i, j : Uniform(states))
                  ELSE ToProbSpace(trans, log_probs)
        prob == ToProbSpace(obs, log_probs)
    IN librosa_viterbi(prob.data, t_prob.data, p_init.data, frames, states)

\* reference.from_file(input_file, transition_file, initial_file, log_probs)
reference_from_file(c) ==
    reference_from_probabilities(
        c.input, LoadTransition(c.transition, c.log_probs),
        LoadInitial(c.initial), c.log_probs)

-----------------------------------------------------------------------------
\* Inputs

\* The probabilities inputs are drawn from: 0, 1/4, 1/3, 1/2, 1.
ProbGrid == <<0, 3, 4, 6, 12>>

\* A fixed scrambling of (seed, i), so that the inputs hold ties, zeros and
\* ones in varied places.
Scramble(seed, i) ==
    (((seed + 1) * 7919 + (i + 1) * 104729 + (seed + 1) * (i + 1) * 31) % 1009)
        \div 7

\* Cell i of the input numbered seed.
Gen(seed, i) == ProbGrid[1 + (Scramble(seed, i) % 5)]

\* An emission tensor (batch, frames, states), a transition matrix and an
\* initial distribution, as probabilities.
GenObservation(seed, batch, frames, states) ==
    Tensor3(batch, frames, states,
            LAMBDA b, t, s : Gen(seed, (b * frames + t) * states + s))

GenTransition(seed, states) ==
    Tensor2(states, states, LAMBDA i, j : Gen(seed + 1, 40 + i * states + j))

GenInitial(seed, states) ==
    Tensor1(states, LAMBDA i : Gen(seed + 2, 80 + i))

\* What a caller passes for a probability tensor under the log_probs flag.
AsGiven(x, log_probs) == IF log_probs THEN TorchLog(x) ELSE x

\* observation[0] of a (1, frames, states) tensor: the file's (frames, states).
Squeeze(x) ==
    Tensor2(x.shape[2], x.shape[3], LAMBDA t, s : x.data[0][t][s])

\* batch_frames of a direct call: None, or a length in 1..frames per item.
LengthChoices(batch, frames) ==
    {None} \cup
    {[shape |-> <<batch>>, data |-> d] : d \in [0..(batch - 1) -> 1..frames]}

\* A direct call of from_probabilities on a batch.
DirectCalls ==
    {[entry |-> "from_probabilities",
      input |-> AsGiven(GenObservation(seed, MaxBatch, MaxFrames, MaxStates), lp),
      batch_frames |-> bf,
      transition |->
          IF hasT THEN AsGiven(GenTransition(seed, MaxStates), lp) ELSE None,
      initial |->
          IF hasI THEN AsGiven(GenInitial(seed, MaxStates), lp) ELSE None,
      log_probs |-> lp,
      gpu |-> gpu] :
        seed \in 0..MaxSeed, lp \in BOOLEAN, hasT \in BOOLEAN, hasI \in BOOLEAN,
        gpu \in {"None", "0"}, bf \in LengthChoices(MaxBatch, MaxFrames)}

\* A call of from_file: input holds the contents of input_file (frames,
\* states), transition and initial those of transition_file and initial_file
\* (None when no file is named).  The transition file holds probabilities.
FileCalls ==
    {[entry |-> "from_file",
      input |-> Squeeze(AsGiven(GenObservation(seed, 1, MaxFrames, MaxStates), lp)),
      batch_frames |-> None,
      transition |-> IF hasT THEN GenTransition(seed, MaxStates) ELSE None,
      initial |->
          IF hasI THEN AsGiven(GenInitial(seed, MaxStates), lp) ELSE None,
      log_probs |-> lp,
      gpu |-> gpu] :
        seed \in 0..MaxSeed, lp \in BOOLEAN, hasT \in BOOLEAN, hasI \in BOOLEAN,
        gpu \in {"None", "0"}}

-----------------------------------------------------------------------------
\* The call as a state machine

Init ==
    /\ call \in DirectCalls \cup FileCalls
    /\ pc = call.entry
    /\ observation = None
    /\ batch_frames = None
    /\ transition = None
    /\ initial = None
    /\ posterior = None
    /\ memory = None
    /\ indices = None
    /\ error = ""
    /\ input_filenames = <<>>
    /\ output_files = <<>>
    /\ position = 0
    /\ disk = <<>>
    /\ progress = [n |-> 0, closed |-> FALSE]
    /\ pool = "none"

\* from_file: load the files and call from_probabilities without batch_frames.
\* The loaded transition is passed through torch.log when log_probs is set.
FromFile ==
    /\ pc = "from_file"
    /\ LET a == FromFileArgs(call)
       IN /\ observation' = a.observation
          /\ batch_frames' = a.batch_frames
          /\ transition' = a.transition
          /\ initial' = a.initial
    /\ pc' = "prepare"
    /\ UNCHANGED <<call, posterior, memory, indices, error>>
    /\ UNCHANGED filesVars

\* A direct call binds the parameters to the arguments.
Call ==
    /\ pc = "from_probabilities"
    /\ observation' = call.input
    /\ batch_frames' = call.batch_frames
    /\ transition' = call.transition
    /\ initial' = call.initial
    /\ pc' = "prepare"
    /\ UNCHANGED <<call, posterior, memory, indices, error>>
    /\ UNCHANGED filesVars

\* Defaults, log space and allocation, by the branch the device selects.
PrepareStep ==
    /\ pc = "prepare"
    /\ LET l == Prepare(observation, batch_frames, transition, initial,
                        call.log_probs, call.gpu)
       IN /\ observation' = l.observation
          /\ batch_frames' = l.batch_frames
          /\ transition' = l.transition
          /\ initial' = l.initial
          /\ posterior' = l.posterior
          /\ memory' = l.memory
    /\ pc' = "forward"
    /\ UNCHANGED <<call, indices, error>>
    /\ UNCHANGED filesVars

\* The forward pass fills posterior and memory in place.
ForwardStep ==
    /\ pc = "forward"
    /\ LET f == Forward([observation |-> observation,
                         batch_frames |-> batch_frames,
                         transition |-> transition,
                         initial |-> initial], call.gpu)
       IN /\ posterior' = f.posterior
          /\ memory' = f.memory
    /\ pc' = "backward"
    /\ UNCHANGED <<call, observation, batch_frames, transition, initial,
                   indices, error>>
    /\ UNCHANGED filesVars

\* indices = backward(posterior, memory, batch_frames=batch_frames); return
BackwardCall ==
    /\ pc = "backward"
    /\ LET r == backward(posterior, memory, batch_frames)
       IN /\ error' = r.raised
          /\ indices' = r.indices
          /\ pc' = IF r.raised = "" THEN "done" ELSE "raised"
    /\ UNCHANGED <<call, observation, batch_frames, transition, initial,
                   posterior, memory>>
    /\ UNCHANGED filesVars

Next == FromFile \/ Call \/ PrepareStep \/ ForwardStep \/ BackwardCall

Spec == Init /\ [][Next]_vars

-----------------------------------------------------------------------------
\* Calls of from_probabilities outside its contract

\* batch_frames with a sequence of no frames.
EmptyLengthChoices(batch, frames) ==
    {[shape |-> <<batch>>, data |-> d] :
        d \in {e \in [0..(batch - 1) -> 0..frames] :
                   \E b \in 0..(batch - 1) : e[b] = 0}}

\* Direct calls whose tensors disagree on the number of states: a transition
\* matrix or an initial distribution of MaxStates states with an observation
\* of MaxStates - 1.
MismatchedCalls ==
    {[entry |-> "from_probabilities",
      input |-> AsGiven(GenObservation(seed, MaxBatch, MaxFrames,
                                       MaxStates - 1), lp),
      batch_frames |-> None,
      transition |->
          AsGiven(GenTransition(seed, IF wide \in {"transition", "both"}
                                      THEN MaxStates ELSE MaxStates - 1), lp),
      initial |->
          AsGiven(GenInitial(seed, IF wide \in {"initial", "both"}
                                   THEN MaxStates ELSE MaxStates - 1), lp),
      log_probs |-> lp,
      gpu |-> gpu] :
        seed \in 0..MaxSeed, lp \in BOOLEAN, gpu \in {"None", "0"},
        wide \in {"transition", "initial", "both"}}

\* Direct calls whose batch_frames holds a 0.
EmptyCalls ==
    {[entry |-> "from_probabilities",
      input |-> AsGiven(GenObservation(seed, MaxBatch, MaxFrames, MaxStates), lp),
      batch_frames |-> bf,
      transition |-> AsGiven(GenTransition(seed, MaxStates), lp),
      initial |-> None,
      log_probs |-> lp,
      gpu |-> gpu] :
        seed \in 0..MaxSeed, lp \in BOOLEAN, gpu \in {"None", "0"},
        bf \in EmptyLengthChoices(MaxBatch, MaxFrames)}

\* Direct calls whose observation has no frames.
NoFramesCalls ==
    {[entry |-> "from_probabilities",
      input |-> AsGiven(GenObservation(seed, MaxBatch, 0, MaxStates), lp),
      batch_frames |-> None,
      transition |-> AsGiven(GenTransition(seed, MaxStates), lp),
      initial |-> None,
      log_probs |-> lp,
      gpu |-> gpu] :
        seed \in 0..MaxSeed, lp \in BOOLEAN, gpu \in {"None", "0"}}

InvalidCalls == MismatchedCalls \cup EmptyCalls \cup NoFramesCalls

InitInvalid ==
    /\ call \in InvalidCalls
    /\ pc = call.entry
    /\ observation = None
    /\ batch_frames = None
    /\ transition = None
    /\ initial = None
    /\ posterior = None
    /\ memory = None
    /\ indices = None
    /\ error = ""
    /\ input_filenames = <<>>
    /\ output_files = <<>>
    /\ position = 0
    /\ disk = <<>>
    /\ progress = [n |-> 0, closed |-> FALSE]
    /\ pool = "none"

NextDirect == Call \/ PrepareStep \/ ForwardStep \/ BackwardCall

SpecInvalid == InitInvalid /\ [][NextDirect]_vars

-----------------------------------------------------------------------------
\* The many-files pipeline: from_files_to_files and from_dataloader (core.py),
\* Dataset (data/dataset.py).  torbi.data.loader and its collate function are
\* not among the sources; they follow the specification (section 4.5): the
\* sequences are taken in order, batch_size at a time, padded to the longest
\* of the batch, with their lengths.

\* A file torch.load cannot read.
Unreadable == None

\* The frames of the emission file at path.
FileFrames(seed, path) == 1 + (Scramble(seed + 5, 200 + path) % MaxFrames)

\* The emission file at path: (frames, states), under the log_probs flag.
GenFile(seed, path, log_probs) ==
    AsGiven(Tensor2(FileFrames(seed, path), MaxStates,
                    LAMBDA t, s : Gen(seed + 7 * path, t * MaxStates + s)),
            log_probs)

\* The values a collate function may pad with.
PadValues == {0, 12}

\* The padding that holds v at every position.
ConstantPad(v) ==
    [b \in 0..MaxBatch |-> [t \in 0..MaxFrames |-> [s \in 0..MaxStates |-> v]]]

\* The paths of the disk: the output paths and one more.
Paths == 1..(MaxFiles + 1)

\* Calls of the pipeline: a list of MaxFiles input files, where the second
\* position may name the first file again (repeat), at most one file (bad)
\* unreadable, and the list of output paths in reverse order.
\* from_files_to_files takes the transition and initial files and does not
\* pass save_workers; from_dataloader takes the tensors, the dictionary and
\* save_workers.
FilesCalls ==
    {[entry |-> e.entry,
      input_files |-> [k \in 1..MaxFiles |-> IF repeat /\ k = 2 THEN 1 ELSE k],
      output_files |-> [k \in 1..MaxFiles |-> MaxFiles + 1 - k],
      files |-> [path \in 1..MaxFiles |->
                    IF path = bad THEN Unreadable ELSE GenFile(seed, path, lp)],
      transition |->
          IF ~hasT THEN None
          ELSE IF e.entry = "from_files_to_files"
          THEN GenTransition(seed, MaxStates)
          ELSE AsGiven(GenTransition(seed, MaxStates), lp),
      initial |-> AsGiven(GenInitial(seed, MaxStates), lp),
      log_probs |-> lp,
      gpu |-> gpu,
      save_workers |-> e.save_workers,
      batch_size |-> size,
      pad |-> pad] :
        e \in {[entry |-> "from_files_to_files", save_workers |-> 0],
               [entry |-> "from_dataloader", save_workers |-> 0],
               [entry |-> "from_dataloader", save_workers |-> 1]},
        seed \in 0..MaxFileSeed, lp \in BOOLEAN, hasT \in BOOLEAN,
        gpu \in {"None", "0"}, size \in 1..MaxBatch, bad \in 0..MaxFiles,
        pad \in PadValues, repeat \in BOOLEAN}

\* Calls of the pipeline on empty lists: the dataloader yields no batch.
EmptyListCalls ==
    {[entry |-> e.entry,
      input_files |-> <<>>,
      output_files |-> <<>>,
      files |-> [path \in 1..MaxFiles |-> GenFile(seed, path, lp)],
      transition |->
          IF ~hasT THEN None
          ELSE IF e.entry = "from_files_to_files"
          THEN GenTransition(seed, MaxStates)
          ELSE AsGiven(GenTransition(seed, MaxStates), lp),
      initial |-> AsGiven(GenInitial(seed, MaxStates), lp),
      log_probs |-> lp,
      gpu |-> gpu,
      save_workers |-> e.save_workers,
      batch_size |-> 1,
      pad |-> 0] :
        e \in {[entry |-> "from_files_to_files", save_workers |-> 0],
               [entry |-> "from_dataloader", save_workers |-> 0],
               [entry |-> "from_dataloader", save_workers |-> 1]},
        seed \in 0..MaxFileSeed, lp \in BOOLEAN, hasT \in BOOLEAN,
        gpu \in {"None", "0"}}

\* mapping = {input_file: output_file for input_file, output_file in
\* zip(input_files, output_files)}: a later pair replaces an earlier one.
Mapping(inputs, outputs) ==
    LET n == IF Len(inputs) < Len(outputs) THEN Len(inputs) ELSE Len(outputs)
    IN [path \in {inputs[k] : k \in 1..n} |->
           outputs[CHOOSE k \in 1..n :
                       /\ inputs[k] = path
                       /\ \A j \in (k + 1)..n : inputs[j] # path]]

\* Dataset.__getitem__(index): (torch.load(input_file), input_file); raises
\* when the file cannot be read.  Chunking is off.
GetItem(c, index) ==
    LET input_file == c.input_files[index]
    IN [observation |-> c.files[input_file], input_file |-> input_file,
        raised |-> c.files[input_file] = Unreadable]

\* The dataset indices of the batch after position.
BatchIndices(c, pos) ==
    (pos + 1)..(IF pos + c.batch_size < Len(c.input_files)
                THEN pos + c.batch_size ELSE Len(c.input_files))

Max(S) == CHOOSE x \in S : \A y \in S : y <= x

\* The collate function: (observation, batch_frames, input_filenames) of the
\* items pos + 1 .. pos + size, padded to the longest; pad[b][t][s] is the
\* value at a padded position.
Collate(c, pos, pad) ==
    LET idx == BatchIndices(c, pos)
        size == Cardinality(idx)
        item == [b \in 0..(size - 1) |-> GetItem(c, pos + 1 + b)]
        frames == Max({item[b].observation.shape[1] : b \in 0..(size - 1)})
        states == item[0].observation.shape[2]
    IN [observation |->
          Tensor3(size, frames, states,
                  LAMBDA b, t, s :
                      IF t < item[b].observation.shape[1]
                      THEN item[b].observation.data[t][s]
                      ELSE pad[b][t][s]),
        batch_frames |->
          Tensor1(size, LAMBDA b : item[b].observation.shape[1]),
        input_filenames |-> [k \in 1..size |-> item[k - 1].input_file]]

\* save_masked(tensor, file, length): the contents written,
\* tensor[..., :length] of a row of indices.
save_masked(tensor, length) ==
    [t \in {u \in DOMAIN tensor : u < length} |-> tensor[t]]

\* The synchronous save loop over zip(indices, filenames, batch_frames).
RECURSIVE SaveRows(_, _, _, _, _, _)
SaveRows(d, rows, filenames, lengths, k, size) ==
    IF k > size THEN d
    ELSE SaveRows(
             [d EXCEPT ![filenames[k]] =
                 [written |-> TRUE,
                  data |-> save_masked(rows.data[k - 1], lengths.data[k - 1])]],
             rows, filenames, lengths, k + 1, size)

\* from_probabilities called without the lengths of the batch.
DecodeBatchWithoutLengths(obs, lengths, trans, init, log_probs, gpu) ==
    from_probabilities(obs, None, trans, init, log_probs, gpu)

\* indices = from_probabilities(observation=observation,
\*     batch_frames=batch_frames, transition=transition, initial=initial,
\*     log_probs=log_probs, gpu=gpu)
DecodeBatch(obs, lengths, trans, init, log_probs, gpu) ==
    from_probabilities(obs, lengths, trans, init, log_probs, gpu)

\* After the finally block the call returns, or the exception goes on to the
\* caller.
Exit(err) == IF err = "" THEN "done" ELSE "raised"

InitFiles ==
    /\ call \in FilesCalls \cup EmptyListCalls
    /\ pc = call.entry
    /\ observation = None
    /\ batch_frames = None
    /\ transition = None
    /\ initial = None
    /\ posterior = None
    /\ memory = None
    /\ indices = None
    /\ error = ""
    /\ input_filenames = <<>>
    /\ output_files = <<>>
    /\ position = 0
    /\ disk = [path \in Paths |-> [written |-> FALSE, data |-> <<>>]]
    /\ progress = [n |-> 0, closed |-> FALSE]
    /\ pool = "none"

\* from_files_to_files: load the shared tensors, build the dictionary and the
\* dataloader, call from_dataloader.
FromFilesToFiles ==
    /\ pc = "from_files_to_files"
    /\ transition' = LoadTransition(call.transition, call.log_probs)
    /\ initial' = LoadInitial(call.initial)
    /\ output_files' = Mapping(call.input_files, call.output_files)
    /\ pc' = "setup"
    /\ UNCHANGED <<call, observation, batch_frames, posterior, memory, indices,
                   error, input_filenames, position, disk, progress, pool>>

\* A direct call of from_dataloader binds its parameters.
CallFromDataloader ==
    /\ pc = "from_dataloader"
    /\ transition' = call.transition
    /\ initial' = call.initial
    /\ output_files' = Mapping(call.input_files, call.output_files)
    /\ pc' = "setup"
    /\ UNCHANGED <<call, observation, batch_frames, posterior, memory, indices,
                   error, input_filenames, position, disk, progress, pool>>

\* The save pool and the progress bar are set up.
Setup ==
    /\ pc = "setup"
    /\ pool' = IF call.save_workers = 0 THEN "nullcontext" ELSE "open"
    /\ progress' = [n |-> 0, closed |-> FALSE]
    /\ pc' = "iterate"
    /\ UNCHANGED <<call, callVars, input_filenames, output_files, position,
                   disk>>

\* The dataloader yields the next batch.
LoadBatch ==
    /\ pc = "iterate"
    /\ position < Len(call.input_files)
    /\ \A i \in BatchIndices(call, position) : ~GetItem(call, i).raised
    /\ LET batch == Collate(call, position, ConstantPad(call.pad))
       IN /\ observation' = batch.observation
          /\ batch_frames' = batch.batch_frames
          /\ input_filenames' = batch.input_filenames
    /\ position' = Max(BatchIndices(call, position))
    /\ pc' = "decode"
    /\ UNCHANGED <<call, transition, initial, posterior, memory, indices,
                   error, output_files, disk, progress, pool>>

\* Loading a file of the next batch raises: the exception leaves the loop.
LoadFails ==
    /\ pc = "iterate"
    /\ position < Len(call.input_files)
    /\ \E i \in BatchIndices(call, position) : GetItem(call, i).raised
    /\ error' = "LoadError"
    /\ pc' = "finally"
    /\ UNCHANGED <<call, observation, batch_frames, transition, initial,
                   posterior, memory, indices, filesVars>>

\* The dataloader is exhausted: the loop ends.
LoaderExhausted ==
    /\ pc = "iterate"
    /\ position = Len(call.input_files)
    /\ pc' = "finally"
    /\ UNCHANGED <<call, callVars, filesVars>>

\* The batch is decoded; an exception of from_probabilities leaves the loop.
DecodeStep ==
    /\ pc = "decode"
    /\ LET r == DecodeBatch(observation, batch_frames, transition, initial,
                            call.log_probs, call.gpu)
       IN /\ error' = r.raised
          /\ indices' = r.indices
          /\ pc' = IF r.raised = "" THEN "save" ELSE "finally"
    /\ UNCHANGED <<call, observation, batch_frames, transition, initial,
                   posterior, memory, filesVars>>

\* save_workers > 0: raise NotImplementedError('not implemented')
SaveNotImplemented ==
    /\ pc = "save"
    /\ call.save_workers > 0
    /\ error' = "NotImplementedError"
    /\ pc' = "finally"
    /\ UNCHANGED <<call, observation, batch_frames, transition, initial,
                   posterior, memory, indices, filesVars>>

\* The synchronous save of every row of the batch, then
\* progress.update(len(input_filenames)).
SaveBatch ==
    /\ pc = "save"
    /\ call.save_workers = 0
    /\ disk' = SaveRows(disk, indices,
                        [k \in 1..Len(input_filenames) |->
                            output_files[input_filenames[k]]],
                        batch_frames, 1, Len(input_filenames))
    /\ progress' = [progress EXCEPT !.n = @ + Len(input_filenames)]
    /\ pc' = "iterate"
    /\ UNCHANGED <<call, callVars, input_filenames, output_files, position,
                   pool>>

\* finally: progress.close(); the pool is closed and joined when there is one.
Finally ==
    /\ pc = "finally"
    /\ progress' = [progress EXCEPT !.closed = TRUE]
    /\ pool' = IF call.save_workers > 0 THEN "joined" ELSE pool
    /\ pc' = Exit(error)
    /\ UNCHANGED <<call, callVars, input_filenames, output_files, position,
                   disk>>

NextFiles ==
    \/ FromFilesToFiles
    \/ CallFromDataloader
    \/ Setup
    \/ LoadBatch
    \/ LoadFails
    \/ LoaderExhausted
    \/ DecodeStep
    \/ SaveNotImplemented
    \/ SaveBatch
    \/ Finally

SpecFiles == InitFiles /\ [][NextFiles]_vars

-----------------------------------------------------------------------------
\* Properties of a call

\* The call has returned / has raised.
Returned == pc = "done"

Raised == pc = "raised"

\* The arguments from_probabilities is called with.
Args(c) ==
    IF c.entry = "from_file" THEN FromFileArgs(c)
    ELSE [observation |-> c.input, batch_frames |-> c.batch_frames,
          transition |-> c.transition, initial |-> c.initial]

Batch(c) == Args(c).observation.shape[1]

Frames(c) == Args(c).observation.shape[2]

States(c) == Args(c).observation.shape[3]

\* s is the smallest index that maximises the vector v over 0..n-1.
IsFirstMax(v, n, s) ==
    /\ s \in 0..(n - 1)
    /\ \A k \in 0..(n - 1) : v[k] <= v[s]
    /\ \A k \in 0..(s - 1) : v[k] < v[s]

\* C1: for every batch element b with length L = batch_frames[b] >= 1, the
\* path P returned by backward has P[L-1] = the smallest index maximising the
\* terminal posterior of b, and P[t] = memory[b, t+1, P[t+1]] for 0 <= t < L-1.
C1_BackwardPath ==
    Returned =>
        \A b \in 0..(Batch(call) - 1) :
            LET L == batch_frames.data[b]
                P == indices.data[b]
            IN /\ L >= 1
               /\ IsFirstMax(posterior.data[b], States(call), P[L - 1])
               /\ \A t \in 0..(L - 2) : P[t] = memory.data[b][t + 1][P[t + 1]]

\* A returned batch where a path changes state along the back-trace and a
\* terminal posterior has its maximum at two states.
C1_Witness ==
    /\ Returned
    /\ \E b \in 0..(Batch(call) - 1) :
          /\ batch_frames.data[b] >= 3
          /\ indices.data[b][0] # indices.data[b][1]
          /\ indices.data[b][1] # indices.data[b][2]
    /\ \E b \in 0..(Batch(call) - 1) :
          \E i, j \in 0..(States(call) - 1) :
              /\ i < j
              /\ indices.data[b][batch_frames.data[b] - 1] = i
              /\ posterior.data[b][i] = posterior.data[b][j]
              /\ posterior.data[b][i] # NegInf

\* The other backend of a call.
OtherBackend(gpu) == IF gpu = "None" THEN "0" ELSE "None"

\* from_probabilities on the call's arguments with batch_frames and gpu
\* replaced.
Decode(c, lengths, gpu) ==
    from_probabilities(Args(c).observation, lengths, Args(c).transition,
                       Args(c).initial, c.log_probs, gpu)

\* batch_frames[b] = frames for every b.
AllFrames(c) == Tensor1(Batch(c), LAMBDA b : Frames(c))

\* C2: for every bounded input (no chunking) the index path returned by the
\* engine's from_probabilities for a single sequence equals the path of the
\* textbook dense Viterbi recurrence with ties resolved to the smallest index,
\* the reference decoder's output.  Stated on from_file, which decodes one
\* sequence, against reference.from_file on the same files.
C2_EngineEqualsReference ==
    (call.entry = "from_file" /\ (Returned \/ Raised)) =>
        /\ Returned
        /\ indices.data[0] = reference_from_file(call)

\* What remains of C2 on the calls that return (the accelerator branch).
EngineEqualsReferenceWhenReturned ==
    (call.entry = "from_file" /\ Returned) =>
        indices.data[0] = reference_from_file(call)

\* C3: called without batch_frames, on every backend including the CPU,
\* decoding succeeds and every batch item is decoded over all of its frames:
\* the result is that of the same call with batch_frames[b] = frames.
C3_DefaultBatchFrames ==
    (IsNone(Args(call).batch_frames) /\ (Returned \/ Raised)) =>
        /\ Returned
        /\ LET full == Decode(call, AllFrames(call), call.gpu)
           IN full.raised = "" /\ indices = full.indices

\* C4: on the CPU backend and on the accelerator backend alike, backward is
\* handed a terminal posterior of shape (batch, states) and a memoization
\* tensor of shape (batch, frames, states), and the two backends return
\* identical index tensors of shape (batch, frames).
C4_BackendParity ==
    (Returned \/ Raised) =>
        /\ posterior.shape = <<Batch(call), States(call)>>
        /\ memory.shape = <<Batch(call), Frames(call), States(call)>>
        /\ Returned
        /\ indices.shape = <<Batch(call), Frames(call)>>
        /\ LET other == Decode(call, Args(call).batch_frames,
                               OtherBackend(call.gpu))
           IN other.raised = "" /\ indices = other.indices

\* C5, as claimed: for every b and every t with batch_frames[b] <= t < frames,
\* the index tensor returned by backward has indices[b, t] = 0.
C5_PaddingIsZero ==
    Returned =>
        \A b \in 0..(Batch(call) - 1) :
            \A t \in batch_frames.data[b]..(Frames(call) - 1) :
                indices.data[b][t] = 0

\* C5, amended: for every b and every t with batch_frames[b] <= t < frames,
\* indices[b, t] is the smallest index maximising the terminal posterior of b
\* (the value backward fills every frame with before the back-trace).
C5_PaddingIsTerminalArgMax ==
    Returned =>
        \A b \in 0..(Batch(call) - 1) :
            \A t \in batch_frames.data[b]..(Frames(call) - 1) :
                IsFirstMax(posterior.data[b], States(call), indices.data[b][t])

\* A returned batch with a sequence shorter than frames whose padded
\* positions hold a state other than 0.
C5_Witness ==
    /\ Returned
    /\ \E b \in 0..(Batch(call) - 1) :
          /\ batch_frames.data[b] < Frames(call)
          /\ indices.data[b][Frames(call) - 1] # 0
          /\ \E t \in 0..(batch_frames.data[b] - 1) :
                indices.data[b][t] # indices.data[b][Frames(call) - 1]

\* Every memoization entry produced by the forward pass is a state.
MemoryInRange ==
    \A b \in 0..(Batch(call) - 1) :
        \A t \in 0..(Frames(call) - 1) :
            \A s \in 0..(States(call) - 1) :
                memory.data[b][t][s] \in 0..(States(call) - 1)

\* C7: for every b and every t < batch_frames[b], the returned indices[b, t]
\* is an integer in [0, S), provided every memoization entry is in [0, S);
\* this for every batch_frames[b] in 1..frames.
C7_IndicesInRange ==
    (Returned /\ MemoryInRange) =>
        \A b \in 0..(Batch(call) - 1) :
            \A t \in 0..(batch_frames.data[b] - 1) :
                indices.data[b][t] \in 0..(States(call) - 1)

\* A returned batch with one sequence of length 1 and one of length frames,
\* whose paths reach the last state.
C7_Witness ==
    /\ Returned
    /\ MemoryInRange
    /\ \E b \in 0..(Batch(call) - 1) :
          /\ batch_frames.data[b] = 1
          /\ indices.data[b][0] = States(call) - 1
    /\ \E b \in 0..(Batch(call) - 1) :
          /\ batch_frames.data[b] = Frames(call)
          /\ \E t \in 0..(Frames(call) - 2) :
                indices.data[b][t] = States(call) - 1

\* Sequence b of the call decoded alone, as a batch of one with its own
\* length L: observation[b, :L] and batch_frames = [L].
Alone(c, b, L) ==
    from_probabilities(
        Tensor3(1, L, States(c), LAMBDA z, t, s : Args(c).observation.data[b][t][s]),
        Tensor1(1, LAMBDA z : L),
        Args(c).transition, Args(c).initial, c.log_probs, c.gpu)

\* C8: the result for one sequence does not depend on the other sequences of
\* its batch: row b of the output, at the positions t < L[b], is the path
\* obtained by decoding sequence b alone as a batch of one with its length.
C8_BatchIndependence ==
    Returned =>
        \A b \in 0..(Batch(call) - 1) :
            LET L == batch_frames.data[b]
                alone == Alone(call, b, L)
            IN /\ alone.raised = ""
               /\ \A t \in 0..(L - 1) :
                     indices.data[b][t] = alone.indices.data[0][t]

\* A returned batch of sequences of different lengths with different paths.
C8_Witness ==
    /\ Returned
    /\ \E b, c \in 0..(Batch(call) - 1) :
          /\ batch_frames.data[b] < batch_frames.data[c]
          /\ batch_frames.data[b] >= 2
          /\ indices.data[b][0] # indices.data[c][0]
          /\ indices.data[b][0] # indices.data[b][1]

\* from_probabilities has put its inputs in log space.
InLogSpace == pc \in {"forward", "backward", "done", "raised"}

-----------------------------------------------------------------------------
\* Properties of the many-files pipeline

\* Another padding of a batch: a value for every position (b, t, s), under
\* the log_probs flag.
OtherPad(seed, log_probs) ==
    [b \in 0..MaxBatch |-> [t \in 0..MaxFrames |-> [s \in 0..MaxStates |->
        LET x == Gen(seed + 3, 300 + (b * MaxFrames + t) * MaxStates + s)
        IN IF log_probs THEN Log(x) ELSE x]]]

\* The batch just saved, collated with another padding.
OtherBatch(seed) ==
    Collate(call, position - Len(input_filenames),
            OtherPad(seed, call.log_probs))

\* The last batch loaded has been decoded and saved.
JustSaved == pc = "iterate" /\ position > 0

\* C6: length masking is noninterference.  When a batch has been saved, a run
\* whose batch differs only in the emission values at the padded positions
\* (t >= batch_frames[b]) decodes without error and writes the same contents
\* to every output file of the batch, and each file written holds exactly
\* the positions t < batch_frames[b].
C6_PaddingNoninterference ==
    JustSaved =>
        \A seed \in 0..MaxFileSeed :
            LET other == OtherBatch(seed)
                r == DecodeBatch(other.observation, other.batch_frames,
                                 transition, initial, call.log_probs, call.gpu)
            IN /\ other.batch_frames = batch_frames
               /\ other.input_filenames = input_filenames
               /\ r.raised = ""
               /\ \A k \in 1..Len(input_filenames) :
                     LET file == disk[output_files[input_filenames[k]]]
                         length == batch_frames.data[k - 1]
                     IN /\ file.written
                        /\ file.data = save_masked(r.indices.data[k - 1], length)
                        /\ DOMAIN file.data = 0..(length - 1)

\* A batch with a padded sequence has been saved, and another padding gives
\* a batch with other emission values.
C6_Witness ==
    /\ JustSaved
    /\ \E k \in 1..Len(input_filenames) :
          /\ batch_frames.data[k - 1] < observation.shape[2]
          /\ disk[output_files[input_filenames[k]]].written
          /\ Len(input_filenames) > 1
    /\ \E seed \in 0..MaxFileSeed :
          OtherBatch(seed).observation # observation

\* The call is over: it returned, or its exception went on to the caller.
Over == pc \in {"done", "raised"}

\* The first input file that cannot be read, 0 when all can.
FirstUnreadable(c) ==
    IF \A k \in 1..Len(c.input_files) : c.files[c.input_files[k]] # Unreadable
    THEN 0
    ELSE CHOOSE k \in 1..Len(c.input_files) :
             /\ c.files[c.input_files[k]] = Unreadable
             /\ \A j \in 1..(k - 1) : c.files[c.input_files[j]] # Unreadable

\* A call whose batches are decoded and saved when their files are read: an
\* accelerator and the synchronous save.
Saving(c) == c.gpu # "None" /\ c.save_workers = 0

\* C10: when loading one input file fails, that sequence is skipped, no
\* output file is produced for it, and every other input file is still
\* decoded and its output file written.
C10_LoadFailureSkipsAndContinues ==
    (Over /\ Saving(call) /\ FirstUnreadable(call) # 0) =>
        \A k \in 1..Len(call.input_files) :
            disk[output_files[call.input_files[k]]].written
                <=> call.files[call.input_files[k]] # Unreadable

\* What the code does on a load failure: the exception leaves the loop and,
\* after the finally block, the call; the files of the batches before the
\* failing one are written, and no file of the failing batch or of a later
\* batch is.
LoadFailureAborts ==
    (Over /\ Saving(call) /\ FirstUnreadable(call) # 0) =>
        LET before == call.batch_size *
                          ((FirstUnreadable(call) - 1) \div call.batch_size)
        IN /\ pc = "raised"
           /\ error = "LoadError"
           /\ progress = [n |-> before, closed |-> TRUE]
           /\ \A k \in 1..Len(call.input_files) :
                 disk[output_files[call.input_files[k]]].written
                     <=> k <= before

-----------------------------------------------------------------------------
\* Properties of the calls outside the contract

\* observation, transition and initial disagree on the number of states.
ShapeMismatch(a) ==
    \/ ~IsNone(a.transition) /\
          a.transition.shape # <<a.observation.shape[3], a.observation.shape[3]>>
    \/ ~IsNone(a.initial) /\ a.initial.shape # <<a.observation.shape[3]>>

\* Some batch_frames[b] = 0, or frames = 0.
EmptySequence(a) ==
    \/ a.observation.shape[2] = 0
    \/ ~IsNone(a.batch_frames) /\
          \E b \in 0..(a.observation.shape[1] - 1) : a.batch_frames.data[b] = 0

\* C11: from_probabilities validates its inputs before decoding.  A call
\* whose tensors disagree on the number of states, or with a batch_frames[b]
\* = 0 or frames = 0, never reaches the forward pass and never returns an
\* index tensor: it raises with nothing allocated or decoded.
C11_InputsValidated ==
    (ShapeMismatch(Args(call)) \/ EmptySequence(Args(call))) =>
        /\ pc \in {"from_probabilities", "prepare", "raised"}
        /\ pc = "raised" => IsNone(posterior) /\ IsNone(memory)
        /\ IsNone(indices)

\* What the code does with such a call: nothing is validated.  On the
\* accelerator branch the forward and backward passes run and an index
\* tensor of shape (batch, frames) is returned; on the CPU branch the call
\* raises in backward, after the forward pass, as it does for every call.
InvalidInputsAreDecoded ==
    ((ShapeMismatch(Args(call)) \/ EmptySequence(Args(call))) /\ Over) =>
        IF call.gpu = "None"
        THEN Raised /\ error = "RuntimeError" /\ ~IsNone(memory)
        ELSE /\ Returned
             /\ indices.shape = <<Batch(call), Frames(call)>>

-----------------------------------------------------------------------------
\* Properties of the files written

\* from_files_to_files has returned normally (save_workers is 0 there).
FilesReturned ==
    /\ call.entry = "from_files_to_files"
    /\ call.save_workers = 0
    /\ pc = "done"

\* The contents expected at position i of the lists: the path of
\* input_files[i] decoded alone, as a batch of one over all of its frames,
\* truncated to its frame count.
DecodedAlone(c, i) ==
    LET file == c.files[c.input_files[i]]
        r == from_probabilities(
                 Unsqueeze(file), Tensor1(1, LAMBDA z : file.shape[1]),
                 LoadTransition(c.transition, c.log_probs),
                 LoadInitial(c.initial), c.log_probs, c.gpu)
    IN [written |-> TRUE,
        data |-> save_masked(r.indices.data[0], file.shape[1])]

\* C12: after from_files_to_files returns normally, for every position i of
\* the input list, whatever the batch size and the list (a path may occur
\* more than once), the file output_files[i] holds exactly the decoded path
\* of input_files[i] truncated to its frame count, and no path outside
\* output_files has been written.
C12_EveryOutputWritten ==
    FilesReturned =>
        /\ \A i \in 1..Len(call.input_files) :
              disk[call.output_files[i]] = DecodedAlone(call, i)
        /\ \A path \in Paths :
              (\A i \in 1..Len(call.output_files) : call.output_files[i] # path)
                  => ~disk[path].written

\* No input path occurs twice in the list.
DistinctInputs(c) ==
    \A i, j \in 1..Len(c.input_files) :
        c.input_files[i] = c.input_files[j] => i = j

\* What the code does: the pairs are kept in a dictionary keyed by the input
\* path, so every position of a path is written to the output path of its
\* last position, and the output paths of its earlier positions are never
\* written.  With distinct input paths every output_files[i] is written as
\* C12 says.
OutputsFollowTheDictionary ==
    FilesReturned =>
        /\ \A i \in 1..Len(call.input_files) :
              disk[Mapping(call.input_files, call.output_files)
                       [call.input_files[i]]] = DecodedAlone(call, i)
        /\ \A path \in Paths :
              (\A i \in 1..Len(call.input_files) :
                   Mapping(call.input_files, call.output_files)
                       [call.input_files[i]] # path)
                  => ~disk[path].written
        /\ DistinctInputs(call) =>
              \A i \in 1..Len(call.input_files) :
                  disk[call.output_files[i]] = DecodedAlone(call, i)

-----------------------------------------------------------------------------
\* Properties of the asynchronous save

\* from_dataloader is called with save_workers > 0 and the call is over.
AsyncOver ==
    /\ call.entry = "from_dataloader"
    /\ call.save_workers > 0
    /\ Over

\* The dataloader yields a first batch: the files of the batch are read.
FirstBatchYielded(c) ==
    /\ Len(c.input_files) > 0
    /\ \A i \in BatchIndices(c, 0) : ~GetItem(c, i).raised

\* No output file exists and progress has not advanced.
NothingSaved ==
    /\ \A path \in Paths : ~disk[path].written
    /\ progress.n = 0

\* C13: from_dataloader with save_workers > 0 on a dataloader that yields a
\* first batch raises NotImplementedError while handling that batch, after it
\* has been decoded and before any file is written: no output file exists,
\* progress has not advanced.  With an empty dataloader no error is raised.
\* On every exit path the progress bar is closed and the pool is closed and
\* joined.
C13_AsyncSaveNotImplemented ==
    AsyncOver =>
        /\ progress.closed
        /\ pool = "joined"
        /\ Len(call.input_files) = 0 => pc = "done" /\ error = ""
        /\ FirstBatchYielded(call) =>
              /\ pc = "raised"
              /\ error = "NotImplementedError"
              /\ ~IsNone(indices)
              /\ position = Cardinality(BatchIndices(call, 0))
              /\ NothingSaved

\* What remains of C13 where the batch is decoded (the accelerator branch);
\* on the CPU branch the exception is that of the decoding, and nothing has
\* been decoded.
AsyncSaveWhenDecoded ==
    AsyncOver =>
        /\ progress.closed
        /\ pool = "joined"
        /\ NothingSaved
        /\ Len(call.input_files) = 0 => pc = "done" /\ error = ""
        /\ FirstBatchYielded(call) =>
              /\ pc = "raised"
              /\ position = Cardinality(BatchIndices(call, 0))
              /\ IF call.gpu = "None"
                 THEN error = "RuntimeError" /\ IsNone(indices)
                 ELSE error = "NotImplementedError" /\ ~IsNone(indices)

====
